---- MODULE Spec2Model ----
(***************************************************************************)
(* DPoS consensus context of go-nebulas (core/dpos_context.go).           *)
(*                                                                         *)
(* The six tries of a DposContext are modelled by their contents: a trie   *)
(* is a set of <<key, value>> entries with at most one entry per key.      *)
(* Addresses are the naturals 1..MaxAddr; the canonical string of an       *)
(* address is a fixed-width hex string, so the order of the strings (and   *)
(* the key order of the trie) is the order of the numbers.  A delegate     *)
(* key delegatee ++ delegator is the pair <<delegatee, delegator>> and a   *)
(* mintCnt key FromInt64(dynastyID) ++ validator is <<dynastyID,           *)
(* validator>>.                                                            *)
(*                                                                         *)
(* Trie handles (pointers to trie.BatchTrie) are indices into a heap, a    *)
(* sequence of trie contents, so that Clone, pointer assignment and        *)
(* in-place writes keep the meaning they have in the source.               *)
(*                                                                         *)
(* Spec       the chain: genesis block, NextDynastyContext, adoption of    *)
(*            its result, Block.kickoutCandidate, mint counts              *)
(* SpecElect  the chain without kickoutCandidate from outside              *)
(* SpecRank   tallyVotes and chooseCandidates on arbitrary tries           *)
(* SpecStore  a DposContext under BeginBatch / Commit / RollBack and       *)
(*            ToProto / FromProto                                          *)
(* SpecKick   Block.kickoutCandidate on arbitrary tries                    *)
(***************************************************************************)
EXTENDS Integers, Sequences, FiniteSets, TLC

\* ---------------------------------------------------------------- constants
BlockInterval == 5
DynastyInterval == 60
DynastySize == 6
SafeSize == DynastySize \div 3 + 1
GenesisTimestamp == 0

\* ------------------------------------------------------------------- bounds
MaxAddr == 7
MaxTime == 240
MaxMintEntries == 1
MaxBalance == 2
MaxRankAddr == 4
MaxDelegators == 3
MaxWrites == 3

Addrs == 1..MaxAddr
\* a configured address string that does not parse
BadAddr == 0
\* the nil byteutils.Hash
NilHash == 0 - 1

Nil == "nil"
ErrTooFewCandidates == "ErrTooFewCandidates"
ErrNotBlockForgTime == "ErrNotBlockForgTime"
ErrInitialDynastyNotEnough == "ErrInitialDynastyNotEnough"
ErrInvalidAddress == "ErrInvalidAddress"
ErrKeyNotFound == "ErrKeyNotFound"

\* AddressParse: the address of a configured string, or an error
AddressParse(s) ==
  IF s \in Addrs THEN [address |-> s, err |-> Nil]
  ELSE [address |-> NilHash, err |-> ErrInvalidAddress]

\* ------------------------------------------------------- the trie package
TrieKeys(t) == {e[1] : e \in t}
TrieHas(t, k) == \E e \in t : e[1] = k
TrieGet(t, k) == (CHOOSE e \in t : e[1] = k)[2]
TrieEmpty(t) == t = {}

\* trie.NewBatchTrie(nil, storage): a fresh handle on an empty trie
NewBatchTrie(heap) == [heap |-> Append(heap, {}), trie |-> Len(heap) + 1]
\* BatchTrie.Clone: a fresh handle on a copy of the contents
TrieClone(heap, t) == [heap |-> Append(heap, heap[t]), trie |-> Len(heap) + 1]
\* the contents after Put(k, v) and after Del(k)
PutEntry(t, k, v) == {e \in t : e[1] # k} \cup {<<k, v>>}
DelEntry(t, k) == {e \in t : e[1] # k}
\* BatchTrie.Put / Del through a handle: the write is seen by every holder of it
TriePut(heap, t, k, v) == [heap EXCEPT ![t] = PutEntry(@, k, v)]
TrieDel(heap, t, k) == [heap EXCEPT ![t] = DelEntry(@, k)]

\* the values of a set of <<sort key, value>> entries in ascending key order
RECURSIVE SeqByKey(_)
SeqByKey(ents) ==
  IF ents = {} THEN <<>>
  ELSE LET m == CHOOSE e \in ents : \A f \in ents : e[1] <= f[1]
       IN <<m[2]>> \o SeqByKey(ents \ {m})

\* Iterator(nil) + Next/Value to the end: every value, in key order.  The
\* iterator walks the nodes of the root it was created on, so it is a
\* snapshot of the trie at that moment.
IterValues(t) == SeqByKey(t)
\* Iterator(prefix) over a trie keyed by pairs: the values under the prefix
IterPrefix(t, prefix) ==
  SeqByKey({<<e[1][2], e[2]>> : e \in {x \in t : x[1][1] = prefix}})

\* ------------------------------------------------------------ kick-out
\* kickoutLoop that leaves the delegator's vote in place
RECURSIVE kickoutLoop_keepVote(_, _, _, _, _, _)
kickoutLoop_keepVote(heap, delegateTrie, voteTrie, candidate, delegators, i) ==
  IF i > Len(delegators) THEN heap
  ELSE kickoutLoop_keepVote(TrieDel(heap, delegateTrie, <<candidate, delegators[i]>>),
                            delegateTrie, voteTrie, candidate, delegators, i + 1)

\* kickoutLoop that leaves the delegate entry in place
RECURSIVE kickoutLoop_keepDelegate(_, _, _, _, _, _)
kickoutLoop_keepDelegate(heap, delegateTrie, voteTrie, candidate, delegators, i) ==
  IF i > Len(delegators) THEN heap
  ELSE LET delegator == delegators[i]
           h2 == IF /\ TrieHas(heap[voteTrie], delegator)
                    /\ TrieGet(heap[voteTrie], delegator) = candidate
                 THEN TrieDel(heap, voteTrie, delegator)
                 ELSE heap
       IN kickoutLoop_keepDelegate(h2, delegateTrie, voteTrie, candidate, delegators, i + 1)

\* kickoutLoop that deletes the delegator's vote whatever its value
RECURSIVE kickoutLoop_anyVote(_, _, _, _, _, _)
kickoutLoop_anyVote(heap, delegateTrie, voteTrie, candidate, delegators, i) ==
  IF i > Len(delegators) THEN heap
  ELSE LET delegator == delegators[i]
           h1 == TrieDel(heap, delegateTrie, <<candidate, delegator>>)
       IN kickoutLoop_anyVote(TrieDel(h1, voteTrie, delegator), delegateTrie,
                              voteTrie, candidate, delegators, i + 1)

RECURSIVE kickoutLoop(_, _, _, _, _, _)
kickoutLoop(heap, delegateTrie, voteTrie, candidate, delegators, i) ==
  IF i > Len(delegators) THEN heap
  ELSE LET delegator == delegators[i]
           key == <<candidate, delegator>>
           h1 == TrieDel(heap, delegateTrie, key)
           h2 == IF /\ TrieHas(h1[voteTrie], delegator)
                    /\ TrieGet(h1[voteTrie], delegator) = candidate
                 THEN TrieDel(h1, voteTrie, delegator)
                 ELSE h1
       IN kickoutLoop(h2, delegateTrie, voteTrie, candidate, delegators, i + 1)

\* kickout that stops after deleting the candidate
kickout_candidateOnly(heap, candidatesTrie, delegateTrie, voteTrie, candidate) ==
  IF ~TrieHas(heap[candidatesTrie], candidate) THEN heap
  ELSE TrieDel(heap, candidatesTrie, candidate)

kickout(heap, candidatesTrie, delegateTrie, voteTrie, candidate) ==
  IF ~TrieHas(heap[candidatesTrie], candidate) THEN heap
  ELSE LET h1 == TrieDel(heap, candidatesTrie, candidate)
       IN kickoutLoop(h1, delegateTrie, voteTrie, candidate,
                      IterPrefix(h1[delegateTrie], candidate), 1)

\* DynastyContext.kickoutCandidate
kickoutCandidate(heap, dc, candidate) ==
  kickout(heap, dc.CandidateTrie, dc.DelegateTrie, dc.VoteTrie, candidate)

\* checkActiveBootstrapValidator without the look-up in the candidate trie
checkActiveBootstrapValidator_genesisOnly(validator, stor, candidates) ==
  TrieHas(stor.genesisDynasty, validator)

\* checkActiveBootstrapValidator that protects nobody
checkActiveBootstrapValidator_nobody(validator, stor, candidates) == FALSE

checkActiveBootstrapValidator(validator, stor, candidates) ==
  IF ~TrieHas(stor.genesisDynasty, validator) THEN FALSE
  ELSE IF ~TrieHas(candidates, validator) THEN FALSE
  ELSE TRUE

RECURSIVE kickoutDynastyLoop(_, _, _, _, _, _)
kickoutDynastyLoop(heap, dc, dynastyID, validators, i, kicked) ==
  IF i > Len(validators) THEN [heap |-> heap, err |-> Nil, kicked |-> kicked]
  ELSE LET validator == validators[i]
           key == <<dynastyID, validator>>
           mint == heap[dc.MintCntTrie]
       IN IF /\ TrieHas(mint, key)
             /\ TrieGet(mint, key) >= ((DynastyInterval \div BlockInterval) \div DynastySize) \div 2
          THEN kickoutDynastyLoop(heap, dc, dynastyID, validators, i + 1, kicked)
          ELSE IF checkActiveBootstrapValidator(validator, dc.Storage, heap[dc.CandidateTrie])
          THEN kickoutDynastyLoop(heap, dc, dynastyID, validators, i + 1, kicked)
          ELSE kickoutDynastyLoop(kickoutCandidate(heap, dc, validator), dc, dynastyID,
                                  validators, i + 1, Append(kicked, validator))

\* kicked: the validators kickoutCandidate was called on, in order
kickoutDynasty(heap, dc, dynastyID) ==
  IF TrieEmpty(heap[dc.DynastyTrie])
  THEN [heap |-> heap, err |-> ErrKeyNotFound, kicked |-> <<>>]
  ELSE kickoutDynastyLoop(heap, dc, dynastyID, IterValues(heap[dc.DynastyTrie]), 1, <<>>)

\* ------------------------------------------------------------ vote tally
RECURSIVE sumBalance(_, _, _)
sumBalance(accounts, delegators, i) ==
  IF i > Len(delegators) THEN 0
  ELSE accounts.balance[delegators[i]] + sumBalance(accounts, delegators, i + 1)

\* tallyVotes that gives a score only to the candidates with a delegate entry
tallyVotes_skipUndelegated(heap, dc) ==
  LET delegate == heap[dc.DelegateTrie]
      candidates == heap[dc.CandidateTrie]
      delegatees == {e[2] : e \in candidates} \cap {e[1][1] : e \in delegate}
  IN [delegatee \in delegatees |->
        sumBalance(dc.Accounts, IterPrefix(delegate, delegatee), 1)]

\* the map votes: delegatee.String() -> score, over the values of the
\* candidate trie; a candidate without a delegate entry scores 0
tallyVotes(heap, dc) ==
  LET delegate == heap[dc.DelegateTrie]
      candidates == heap[dc.CandidateTrie]
      delegatees == {e[2] : e \in candidates}
  IN [delegatee \in delegatees |->
        sumBalance(dc.Accounts, IterPrefix(delegate, delegatee), 1)]

\* ------------------------------------------------------ candidate ranking
\* Less that breaks a tie by descending address
Less_addressDescending(p, q) ==
  IF p.Votes < q.Votes THEN FALSE
  ELSE IF p.Votes > q.Votes THEN TRUE
  ELSE p.Address > q.Address

\* Candidates.Less on two Candidate records
Less(p, q) ==
  IF p.Votes < q.Votes THEN FALSE
  ELSE IF p.Votes > q.Votes THEN TRUE
  ELSE p.Address < q.Address

\* sort.Sort(Candidates): the list ordered by Less
RECURSIVE sortInsert(_, _)
sortInsert(p, s) ==
  IF s = <<>> THEN <<p>>
  ELSE IF Less(p, Head(s)) THEN <<p>> \o s
  ELSE <<Head(s)>> \o sortInsert(p, Tail(s))

RECURSIVE sortCandidates(_)
sortCandidates(s) ==
  IF s = <<>> THEN <<>> ELSE sortInsert(Head(s), sortCandidates(Tail(s)))

fetchActiveBootstapValidators(stor, candidates) ==
  LET isCandidate(validator) == TrieHas(candidates, validator)
  IN SelectSeq(IterValues(stor.genesisDynasty), isCandidate)

\* the entries of a map as a list, in some order (range over a Go map)
RECURSIVE mapRange(_, _)
mapRange(votes, keys) ==
  IF keys = {} THEN <<>>
  ELSE LET k == CHOOSE x \in keys : TRUE
       IN <<[Address |-> k, Votes |-> votes[k]]>> \o mapRange(votes, keys \ {k})

\* chooseCandidates that does not delete the bootstrap validators from votes
chooseCandidates_keepBootstrapVotes(votes, stor, candidateTrie) ==
  LET activeBootstrapValidators == fetchActiveBootstapValidators(stor, candidateTrie)
      bootstrapCandidates ==
        sortCandidates([i \in DOMAIN activeBootstrapValidators |->
                          [Address |-> activeBootstrapValidators[i], Votes |-> 0]])
      candidates == sortCandidates(mapRange(votes, DOMAIN votes))
  IN bootstrapCandidates \o candidates

chooseCandidates(votes, stor, candidateTrie) ==
  LET activeBootstrapValidators == fetchActiveBootstapValidators(stor, candidateTrie)
      active == {activeBootstrapValidators[i] : i \in DOMAIN activeBootstrapValidators}
      bootstrapCandidates ==
        sortCandidates([i \in DOMAIN activeBootstrapValidators |->
                          [Address |-> activeBootstrapValidators[i], Votes |-> 0]])
      candidates == sortCandidates(mapRange(votes, (DOMAIN votes) \ active))
  IN bootstrapCandidates \o candidates

\* the map votes after chooseCandidates: the call deletes the active
\* bootstrap validators from the map of its caller
votesAfterChooseCandidates(votes, stor, candidateTrie) ==
  LET activeBootstrapValidators == fetchActiveBootstapValidators(stor, candidateTrie)
      active == {activeBootstrapValidators[i] : i \in DOMAIN activeBootstrapValidators}
  IN [k \in (DOMAIN votes) \ active |-> votes[k]]

\* ------------------------------------------------------------- election
\* the width of int in this build of the program, 32 or 64 bits
VARIABLE intSize

\* hasher.Sum32() over FromInt64(nextDynastyID) and the account state root:
\* a uint32, kept as its top bit hi and its low 31 bits lo
fnvSum32(accounts, nextDynastyID) == accounts.sum32[nextDynastyID]

\* int(sum) % m for m > 0.  int is 64 bits wide or 32 bits wide, as the
\* build has it: a 64-bit int holds the uint32 as it is, a 32-bit int holds
\* a uint32 with the top bit set as the negative lo - 2^31, and % takes the
\* sign of the dividend.
intRem(sum, m, bits) ==
  IF sum.hi = 0 THEN sum.lo % m
  ELSE IF bits = 64 THEN (((2147483647 % m) + 1) + (sum.lo % m)) % m
  ELSE 0 - ((((2147483647 - sum.lo) % m) + 1) % m)

\* putDirectSelected with directSelected = DynastySize
RECURSIVE putDirectSelected_all(_, _, _, _)
putDirectSelected_all(heap, nextDynastyTrie, candidates, i) ==
  IF ~(i < DynastySize /\ i < Len(candidates)) THEN heap
  ELSE LET delegatee == candidates[i + 1].Address
       IN putDirectSelected_all(TriePut(heap, nextDynastyTrie, delegatee, delegatee),
                                nextDynastyTrie, candidates, i + 1)

RECURSIVE putDirectSelected(_, _, _, _)
putDirectSelected(heap, nextDynastyTrie, candidates, i) ==
  IF ~(i < DynastySize - 1 /\ i < Len(candidates)) THEN heap
  ELSE LET delegatee == candidates[i + 1].Address
       IN putDirectSelected(TriePut(heap, nextDynastyTrie, delegatee, delegatee),
                            nextDynastyTrie, candidates, i + 1)

\* the tail pick of one election: candidates[offset], 0-based
putRandomSelected(heap, nextDynastyTrie, candidates, accounts, nextDynastyID) ==
  LET directSelected == DynastySize - 1
  IN IF Len(candidates) > directSelected
     THEN LET result == intRem(fnvSum32(accounts, nextDynastyID),
                               Len(candidates) - directSelected, intSize)
              offset == result + DynastySize - 1
              delegatee == candidates[offset + 1].Address
          IN TriePut(heap, nextDynastyTrie, delegatee, delegatee)
     ELSE heap

\* the record of one iteration of the election loop
stepRecord(i, kick, before, after, dcBefore, dcAfter, votes, candidates, err) ==
  [id |-> i,
   kickoutRan |-> kick.ran,
   kicked |-> kick.kicked,
   mintCnt |-> before[dcBefore.MintCntTrie],
   candidateBefore |-> before[dcBefore.CandidateTrie],
   candidateAfter |-> after[dcBefore.CandidateTrie],
   delegateAfter |-> after[dcBefore.DelegateTrie],
   voteAfter |-> after[dcBefore.VoteTrie],
   dynastyBefore |-> before[dcBefore.DynastyTrie],
   nextDynastyBefore |-> before[dcBefore.NextDynastyTrie],
   dynastyAfter |-> after[dcAfter.DynastyTrie],
   nextDynastyAfter |-> after[dcAfter.NextDynastyTrie],
   votes |-> votes,
   candidates |-> candidates,
   err |-> err]

\* electRotate that installs the new nextDynasty and keeps the dynasty
electRotate_keepDynasty(st, i, nextDynastyID, kick, k, votes, candidates, n) ==
  LET h1 == putDirectSelected(n.heap, n.trie, candidates, 0)
      h2 == putRandomSelected(h1, n.trie, candidates, st.dc.Accounts, nextDynastyID)
      dc2 == [st.dc EXCEPT !.NextDynastyTrie = n.trie]
  IN [heap |-> h2, dc |-> dc2, err |-> Nil,
      steps |-> Append(st.steps, stepRecord(i, kick, st.heap, h2, st.dc, dc2,
                                            votes, candidates, Nil))]

\* the end of one iteration: the fresh nextDynasty trie n is filled from the
\* ranked candidates and the pair dynasty / nextDynasty is rotated
electRotate(st, i, nextDynastyID, kick, k, votes, candidates, n) ==
  LET h1 == putDirectSelected(n.heap, n.trie, candidates, 0)
      h2 == putRandomSelected(h1, n.trie, candidates, st.dc.Accounts, nextDynastyID)
      dc2 == [st.dc EXCEPT !.DynastyTrie = st.dc.NextDynastyTrie,
                           !.NextDynastyTrie = n.trie]
  IN [heap |-> h2, dc |-> dc2, err |-> Nil,
      steps |-> Append(st.steps, stepRecord(i, kick, st.heap, h2, st.dc, dc2,
                                            votes, candidates, Nil))]

\* one iteration after tally and ranking: the size check, then the selection
electSelect(st, i, nextDynastyID, kick, k, votes, candidates) ==
  IF Len(candidates) < SafeSize
  THEN [st EXCEPT !.heap = k.heap, !.err = ErrTooFewCandidates,
          !.steps = Append(@, stepRecord(i, kick, st.heap, k.heap, st.dc, st.dc,
                                         votes, candidates, ErrTooFewCandidates))]
  ELSE electRotate(st, i, nextDynastyID, kick, k, votes, candidates,
                   NewBatchTrie(k.heap))

\* one iteration after the kick-out k: tally, then ranking
electTally(st, i, nextDynastyID, kick, k, votes) ==
  electSelect(st, i, nextDynastyID, kick, k, votes,
              chooseCandidates(votes, st.dc.Storage, k.heap[st.dc.CandidateTrie]))

\* electAfterKickout that tallies and ranks on the tries as they were before
\* the kick-out
electAfterKickout_tallyBeforeKickout(st, i, nextDynastyID, kick, k) ==
  IF k.err # Nil
  THEN [st EXCEPT !.heap = k.heap, !.err = k.err,
          !.steps = Append(@, stepRecord(i, kick, st.heap, k.heap, st.dc, st.dc,
                                         <<>>, <<>>, k.err))]
  ELSE electSelect(st, i, nextDynastyID, kick, k, tallyVotes(st.heap, st.dc),
                   chooseCandidates(tallyVotes(st.heap, st.dc), st.dc.Storage,
                                    st.heap[st.dc.CandidateTrie]))

\* one iteration, given what its kick-out returned
electAfterKickout(st, i, nextDynastyID, kick, k) ==
  IF k.err # Nil
  THEN [st EXCEPT !.heap = k.heap, !.err = k.err,
          !.steps = Append(@, stepRecord(i, kick, st.heap, k.heap, st.dc, st.dc,
                                         <<>>, <<>>, k.err))]
  ELSE electTally(st, i, nextDynastyID, kick, k, tallyVotes(k.heap, st.dc))

\* one iteration of the loop of electNextDynastyOnBaseDynasty, for dynasty i
electStepWith(st, i, nextDynastyID, baseGenesis, k) ==
  electAfterKickout(st, i, nextDynastyID,
                    [ran |-> ~baseGenesis, kicked |-> k.kicked], k)

\* electStep that runs the kick-out whatever baseGenesis is
electStep_alwaysKickout(st, i, nextDynastyID, baseGenesis) ==
  electStepWith(st, i, nextDynastyID, FALSE, kickoutDynasty(st.heap, st.dc, i))

electStep(st, i, nextDynastyID, baseGenesis) ==
  electStepWith(st, i, nextDynastyID, baseGenesis,
                IF ~baseGenesis THEN kickoutDynasty(st.heap, st.dc, i)
                ELSE [heap |-> st.heap, err |-> Nil, kicked |-> <<>>])

RECURSIVE electLoop(_, _, _, _)
\* the loop goes on after a step without error
electLoopNext(s, i, nextDynastyID, baseGenesis) ==
  IF s.err # Nil THEN s ELSE electLoop(s, i + 1, nextDynastyID, baseGenesis)

electLoop(st, i, nextDynastyID, baseGenesis) ==
  IF ~(i < nextDynastyID) THEN st
  ELSE electLoopNext(electStep(st, i, nextDynastyID, baseGenesis), i,
                     nextDynastyID, baseGenesis)

\* electNextDynastyOnBaseDynasty that keeps baseDynastyID when baseGenesis
electNextDynastyOnBaseDynasty_allIds(st, baseDynastyID, nextDynastyID, baseGenesis) ==
  electLoop(st, baseDynastyID, nextDynastyID, baseGenesis)

electNextDynastyOnBaseDynasty(st, baseDynastyID, nextDynastyID, baseGenesis) ==
  electLoop(st, IF baseGenesis THEN nextDynastyID - 1 ELSE baseDynastyID,
            nextDynastyID, baseGenesis)

\* ------------------------------------------------------- scheduler view
\* the block's own six tries as the first six cells of the heap of a call
blockHeap(dposContext) ==
  <<dposContext.dynastyTrie, dposContext.nextDynastyTrie, dposContext.delegateTrie,
    dposContext.candidateTrie, dposContext.voteTrie, dposContext.mintCntTrie>>

blockRefs ==
  [dynastyTrie |-> 1, nextDynastyTrie |-> 2, delegateTrie |-> 3,
   candidateTrie |-> 4, voteTrie |-> 5, mintCntTrie |-> 6]

\* the contents behind the six handles of a DposContext
derefDposContext(heap, refs) ==
  [dynastyTrie |-> heap[refs.dynastyTrie],
   nextDynastyTrie |-> heap[refs.nextDynastyTrie],
   delegateTrie |-> heap[refs.delegateTrie],
   candidateTrie |-> heap[refs.candidateTrie],
   voteTrie |-> heap[refs.voteTrie],
   mintCntTrie |-> heap[refs.mintCntTrie]]

\* the block's own handles taken instead of clones
cloneTries_shared(heap, refs) ==
  [heap |-> heap,
   dynastyTrie |-> refs.dynastyTrie, nextDynastyTrie |-> refs.nextDynastyTrie,
   delegateTrie |-> refs.delegateTrie, candidateTrie |-> refs.candidateTrie,
   voteTrie |-> refs.voteTrie, mintCntTrie |-> refs.mintCntTrie]

\* the six Clone calls that open NextDynastyContext
cloneTries(heap, refs) ==
  LET c1 == TrieClone(heap, refs.dynastyTrie)
      c2 == TrieClone(c1.heap, refs.nextDynastyTrie)
      c3 == TrieClone(c2.heap, refs.delegateTrie)
      c4 == TrieClone(c3.heap, refs.candidateTrie)
      c5 == TrieClone(c4.heap, refs.voteTrie)
      c6 == TrieClone(c5.heap, refs.mintCntTrie)
  IN [heap |-> c6.heap,
      dynastyTrie |-> c1.trie, nextDynastyTrie |-> c2.trie,
      delegateTrie |-> c3.trie, candidateTrie |-> c4.trie,
      voteTrie |-> c5.trie, mintCntTrie |-> c6.trie]

TraverseDynasty(dynasty) ==
  IF TrieEmpty(dynasty) THEN <<>> ELSE IterValues(dynasty)

\* resolveContext that wraps the slot around a dynasty smaller than the slot
resolveContext_wrapProposer(heap, dc, offset) ==
  LET delegatees == TraverseDynasty(heap[dc.DynastyTrie])
  IN [TimeStamp |-> dc.TimeStamp,
      Offset |-> offset,
      Proposer |-> IF Len(delegatees) = 0 THEN NilHash
                   ELSE delegatees[(offset % Len(delegatees)) + 1],
      DynastyTrie |-> heap[dc.DynastyTrie],
      NextDynastyTrie |-> heap[dc.NextDynastyTrie],
      DelegateTrie |-> heap[dc.DelegateTrie],
      CandidateTrie |-> heap[dc.CandidateTrie],
      VoteTrie |-> heap[dc.VoteTrie],
      MintCntTrie |-> heap[dc.MintCntTrie]]

\* the DynastyContext behind the handles, with Offset and Proposer set
resolveContext(heap, dc, offset) ==
  LET delegatees == TraverseDynasty(heap[dc.DynastyTrie])
  IN [TimeStamp |-> dc.TimeStamp,
      Offset |-> offset,
      Proposer |-> IF offset >= Len(delegatees) THEN NilHash ELSE delegatees[offset + 1],
      DynastyTrie |-> heap[dc.DynastyTrie],
      NextDynastyTrie |-> heap[dc.NextDynastyTrie],
      DelegateTrie |-> heap[dc.DelegateTrie],
      CandidateTrie |-> heap[dc.CandidateTrie],
      VoteTrie |-> heap[dc.VoteTrie],
      MintCntTrie |-> heap[dc.MintCntTrie]]

\* the slot check with / in place of %
notBlockForgTime_div(offset) == offset \div BlockInterval # 0

\* the slot check of NextDynastyContext on offset = TimeStamp % DynastyInterval
notBlockForgTime(offset) == offset % BlockInterval # 0

\* the second call of electNextDynastyOnBaseDynasty, unless the first failed
electLastDynasty(s1, baseDynastyID, newDynastyID) ==
  IF s1.err # Nil THEN s1
  ELSE electNextDynastyOnBaseDynasty(s1, newDynastyID - 1, newDynastyID,
                                     baseDynastyID = 0)

\* the elections of one call: the two calls of electNextDynastyOnBaseDynasty
electDynasties(st, baseDynastyID, newDynastyID) ==
  IF baseDynastyID < newDynastyID
  THEN electLastDynasty(
         IF baseDynastyID + 1 < newDynastyID
         THEN electNextDynastyOnBaseDynasty(st, baseDynastyID, newDynastyID - 1,
                                            baseDynastyID = 0)
         ELSE st,
         baseDynastyID, newDynastyID)
  ELSE st

\* what the call returns once the elections are over.  context is <<>> for a
\* nil context, else <<c>>; steps records the election steps that ran;
\* dposContext is the content of the block's own tries at the return.
returnContext(st, offset) ==
  [context |-> IF st.err # Nil THEN <<>>
               ELSE <<resolveContext(st.heap, st.dc, offset)>>,
   err |-> st.err,
   steps |-> st.steps,
   dposContext |-> derefDposContext(st.heap, blockRefs)]

\* the call after the six clones c
nextDynastyContextOn(block, elapsedSecond, accounts, stor, c, timestamp) ==
  IF notBlockForgTime(timestamp % DynastyInterval)
  THEN [context |-> <<>>, err |-> ErrNotBlockForgTime, steps |-> <<>>,
        dposContext |-> derefDposContext(c.heap, blockRefs)]
  ELSE returnContext(
         electDynasties([heap |-> c.heap,
                         dc |-> [TimeStamp |-> timestamp,
                                 DynastyTrie |-> c.dynastyTrie,
                                 NextDynastyTrie |-> c.nextDynastyTrie,
                                 DelegateTrie |-> c.delegateTrie,
                                 CandidateTrie |-> c.candidateTrie,
                                 VoteTrie |-> c.voteTrie,
                                 MintCntTrie |-> c.mintCntTrie,
                                 Accounts |-> accounts,
                                 Storage |-> stor],
                         err |-> Nil, steps |-> <<>>],
                        block.timestamp \div DynastyInterval,
                        timestamp \div DynastyInterval),
         ((timestamp % DynastyInterval) \div BlockInterval) % DynastySize)

\* Block.NextDynastyContext
NextDynastyContext(block, elapsedSecond, accounts, stor) ==
  nextDynastyContextOn(block, elapsedSecond, accounts, stor,
                       cloneTries(blockHeap(block.dposContext), blockRefs),
                       block.timestamp + elapsedSecond)

\* Block.LoadDynastyContext
LoadDynastyContext(block, context) ==
  [timestamp |-> context.TimeStamp,
   dposContext |-> [dynastyTrie |-> context.DynastyTrie,
                    nextDynastyTrie |-> context.NextDynastyTrie,
                    delegateTrie |-> context.DelegateTrie,
                    candidateTrie |-> context.CandidateTrie,
                    voteTrie |-> context.VoteTrie,
                    mintCntTrie |-> context.MintCntTrie]]

\* Block.kickoutCandidate: kickout on the block's own tries
blockKickoutCandidate(block, candidate) ==
  LET heap == kickout(blockHeap(block.dposContext), blockRefs.candidateTrie,
                      blockRefs.delegateTrie, blockRefs.voteTrie, candidate)
  IN [block EXCEPT !.dposContext = derefDposContext(heap, blockRefs)]

\* ------------------------------------------------------------- genesis
\* genesisLoop with i <= DynastySize
RECURSIVE genesisLoop_offByOne(_, _, _)
genesisLoop_offByOne(dynastyConf, i, t) ==
  IF ~(i < Len(dynastyConf)) THEN t
  ELSE LET member == AddressParse(dynastyConf[i + 1])
           v == member.address
       IN IF member.err # Nil THEN [t EXCEPT !.err = member.err]
          ELSE genesisLoop_offByOne(dynastyConf, i + 1,
                 [t EXCEPT !.dynasty = IF i <= DynastySize THEN PutEntry(@, v, v) ELSE @,
                           !.vote = PutEntry(@, v, v),
                           !.delegate = PutEntry(@, <<v, v>>, v),
                           !.candidate = PutEntry(@, v, v)])

RECURSIVE genesisLoop(_, _, _)
genesisLoop(dynastyConf, i, t) ==
  IF ~(i < Len(dynastyConf)) THEN t
  ELSE LET member == AddressParse(dynastyConf[i + 1])
           v == member.address
       IN IF member.err # Nil THEN [t EXCEPT !.err = member.err]
          ELSE genesisLoop(dynastyConf, i + 1,
                 [t EXCEPT !.dynasty = IF i < DynastySize THEN PutEntry(@, v, v) ELSE @,
                           !.vote = PutEntry(@, v, v),
                           !.delegate = PutEntry(@, <<v, v>>, v),
                           !.candidate = PutEntry(@, v, v)])

\* the DynastyContext built from the tries t, unless an address failed
genesisContext(t) ==
  IF t.err # Nil THEN [context |-> <<>>, err |-> t.err]
  ELSE [context |-> <<[TimeStamp |-> GenesisTimestamp,
                       Offset |-> 0,
                       Proposer |-> NilHash,
                       DynastyTrie |-> t.dynasty,
                       NextDynastyTrie |-> t.dynasty,
                       DelegateTrie |-> t.delegate,
                       CandidateTrie |-> t.candidate,
                       VoteTrie |-> t.vote,
                       MintCntTrie |-> t.mint]>>,
        err |-> Nil]

\* GenesisDynastyContext that also refuses a list of exactly SafeSize entries
GenesisDynastyContext_atMostSafeSize(dynastyConf) ==
  IF Len(dynastyConf) <= SafeSize
  THEN [context |-> <<>>, err |-> ErrInitialDynastyNotEnough]
  ELSE genesisContext(genesisLoop(dynastyConf, 0,
         [dynasty |-> {}, delegate |-> {}, candidate |-> {}, vote |-> {},
          mint |-> {}, err |-> Nil]))

\* GenesisDynastyContext on conf.Consensus.Dpos.Dynasty
GenesisDynastyContext(dynastyConf) ==
  IF Len(dynastyConf) < SafeSize
  THEN [context |-> <<>>, err |-> ErrInitialDynastyNotEnough]
  ELSE genesisContext(genesisLoop(dynastyConf, 0,
         [dynasty |-> {}, delegate |-> {}, candidate |-> {}, vote |-> {},
          mint |-> {}, err |-> Nil]))

\* ------------------------------------------------------- the state machine
\* phase         "config" before the genesis block is built, then "running",
\*               or "failed" when GenesisDynastyContext returned an error
\* conf          conf.Consensus.Dpos.Dynasty, the configured address strings
\* genesis       what GenesisDynastyContext returned
\* storage       the genesis block in storage (its dynasty trie)
\* block         the tail block: header timestamp and DPoS context
\* ret           what the last NextDynastyContext call returned
\* last          the last operation, its argument and its error; hit tells
\*               whether kickoutCandidate found its candidate
\* rank          a call of tallyVotes and chooseCandidates on tries of its
\*               own: the tries, what the calls returned
\* dposCtx       a DposContext under the batch protocol and its header form
VARIABLES phase, conf, genesis, storage, block, ret, last, rank, dposCtx, kickCall

vars ==
  <<phase, conf, genesis, storage, block, ret, last, rank, dposCtx, kickCall, intSize>>
chainVars == <<phase, conf, genesis, storage, block, ret, last, intSize>>

\* a configuration of n distinct addresses, the first of them `first`
ConfFrom(first, n) == [i \in 1..n |-> ((first + i - 2) % MaxAddr) + 1]

GenesisConfs ==
  {ConfFrom(1, n) : n \in 0..MaxAddr}
    \cup {ConfFrom(3, MaxAddr), <<1, 1, 2>>, <<2, 1, 2, 3>>, <<1, BadAddr, 2, 3>>,
          [i \in 1..DynastySize |-> 1] \o <<2, 3>>}

ElapsedSeconds == {55, 60, 63, 120, 180}

\* the account states a call may see: the balances, and the FNV digest the
\* state root gives each dynasty id (the root is arbitrary, so is the digest)
AccountStates ==
  {[balance |-> [a \in Addrs |-> 0],
    sum32 |-> [id \in 0..MaxTime |-> [hi |-> 0, lo |-> 0]]],
   [balance |-> [a \in Addrs |-> a % (MaxBalance + 1)],
    sum32 |-> [id \in 0..MaxTime |-> [hi |-> 0, lo |-> id]]],
   [balance |-> [a \in Addrs |-> (MaxAddr - a) % (MaxBalance + 1)],
    sum32 |-> [id \in 0..MaxTime |-> [hi |-> 1, lo |-> id]]]}

\* the widths of int among the builds of the program
IntSizes == {32, 64}

\* the validators whose minted blocks are recorded
MintValidators == {MaxAddr}

\* the addresses Block.kickoutCandidate is called on
KickTargets == {2, MaxAddr}

EmptyDposContext ==
  [dynastyTrie |-> {}, nextDynastyTrie |-> {}, delegateTrie |-> {},
   candidateTrie |-> {}, voteTrie |-> {}, mintCntTrie |-> {}]

NilRet ==
  [context |-> <<>>, err |-> Nil, steps |-> <<>>, elapsed |-> 0,
   timestamp |-> 0, before |-> EmptyDposContext]

NoRank == [op |-> "none"]
NoDposCtx == [op |-> "none"]
NoKickCall == [op |-> "none"]

\* the chain before its genesis block, on the configuration c
InitChain(c) ==
  /\ phase = "config"
  /\ conf = c
  /\ genesis = [context |-> <<>>, err |-> Nil]
  /\ storage = [genesisDynasty |-> {}]
  /\ block = [timestamp |-> GenesisTimestamp, dposContext |-> EmptyDposContext]
  /\ ret = NilRet
  /\ last = [op |-> "none", arg |-> 0, hit |-> FALSE, err |-> Nil]

Init ==
  /\ \E c \in GenesisConfs : InitChain(c)
  /\ rank = NoRank
  /\ dposCtx = NoDposCtx
  /\ kickCall = NoKickCall
  /\ intSize \in IntSizes

\* the genesis block made of what GenesisDynastyContext returned
genesisBlock(g) ==
  /\ genesis' = g
  /\ last' = [op |-> "GenesisDynastyContext", arg |-> 0, hit |-> FALSE, err |-> g.err]
  /\ IF g.err # Nil
     THEN /\ phase' = "failed"
          /\ UNCHANGED <<storage, block>>
     ELSE /\ phase' = "running"
          /\ block' = LoadDynastyContext(block, g.context[1])
          /\ storage' = [genesisDynasty |-> g.context[1].DynastyTrie]

\* the genesis block: GenesisDynastyContext, then LoadDynastyContext on it
NewGenesisBlock ==
  /\ phase = "config"
  /\ genesisBlock(GenesisDynastyContext(conf))
  /\ UNCHANGED <<conf, ret, rank, dposCtx, kickCall, intSize>>

\* the caller keeps what the call returned; the block holds its own tries
callReturns(elapsedSecond, r) ==
  /\ ret' = [context |-> r.context, err |-> r.err, steps |-> r.steps,
             elapsed |-> elapsedSecond, timestamp |-> block.timestamp,
             before |-> block.dposContext]
  /\ block' = [block EXCEPT !.dposContext = r.dposContext]
  /\ last' = [op |-> "NextDynastyContext", arg |-> elapsedSecond, hit |-> FALSE,
              err |-> r.err]

\* a call of NextDynastyContext on the tail block
CallNextDynastyContext ==
  /\ phase = "running"
  /\ \E elapsedSecond \in ElapsedSeconds :
       /\ block.timestamp + elapsedSecond <= MaxTime
       /\ \E accounts \in AccountStates :
            callReturns(elapsedSecond,
                     NextDynastyContext(block, elapsedSecond, accounts, storage))
  /\ UNCHANGED <<phase, conf, genesis, storage, rank, dposCtx, kickCall, intSize>>

\* the next block adopts the context that was just computed
CallLoadDynastyContext ==
  /\ phase = "running"
  /\ last.op = "NextDynastyContext"
  /\ ret.err = Nil
  /\ block' = LoadDynastyContext(block, ret.context[1])
  /\ ret' = NilRet
  /\ last' = [op |-> "LoadDynastyContext", arg |-> 0, hit |-> FALSE, err |-> Nil]
  /\ UNCHANGED <<phase, conf, genesis, storage, rank, dposCtx, kickCall, intSize>>

\* Block.kickoutCandidate on the tail block
CallKickoutCandidate ==
  /\ phase = "running"
  /\ \E candidate \in KickTargets :
       /\ block' = blockKickoutCandidate(block, candidate)
       /\ last' = [op |-> "kickoutCandidate", arg |-> candidate,
                   hit |-> TrieHas(block.dposContext.candidateTrie, candidate),
                   err |-> Nil]
  /\ ret' = NilRet
  /\ UNCHANGED <<phase, conf, genesis, storage, rank, dposCtx, kickCall, intSize>>

\* a block minted in the block's dynasty is counted for its validator
RecordMintCnt ==
  /\ phase = "running"
  /\ \E validator \in TrieKeys(block.dposContext.dynastyTrie) \cap MintValidators,
        cnt \in 0..1 :
       LET key == <<block.timestamp \div DynastyInterval, validator>>
       IN /\ \/ TrieHas(block.dposContext.mintCntTrie, key)
             \/ Cardinality(block.dposContext.mintCntTrie) < MaxMintEntries
          /\ block' = [block EXCEPT !.dposContext.mintCntTrie = PutEntry(@, key, cnt)]
          /\ last' = [op |-> "mintCnt", arg |-> 0, hit |-> FALSE, err |-> Nil]
  /\ ret' = NilRet
  /\ UNCHANGED <<phase, conf, genesis, storage, rank, dposCtx, kickCall, intSize>>

Next ==
  \/ NewGenesisBlock
  \/ CallNextDynastyContext
  \/ CallLoadDynastyContext
  \/ CallKickoutCandidate
  \/ RecordMintCnt

Spec == Init /\ [][Next]_vars

\* the chain when candidates leave by elections only: no kickoutCandidate
\* from outside
NextElect ==
  \/ NewGenesisBlock
  \/ CallNextDynastyContext
  \/ CallLoadDynastyContext
  \/ RecordMintCnt

SpecElect == Init /\ [][NextElect]_vars

\* ------------------------------------------- tally and ranking on their own
\* tallyVotes and chooseCandidates called on a DynastyContext whose candidate
\* and delegate tries, genesis dynasty and account balances are arbitrary.
RankAddrs == 1..MaxRankAddr
RankDelegators == 1..MaxDelegators

\* the delegate trie in which delegator d has delegated to f[d] (0: to nobody)
DelegateTrieOf(f) == {<<<<f[d], d>>, d>> : d \in {x \in DOMAIN f : f[x] # 0}}
DynastyTrieOf(S) == {<<v, v>> : v \in S}

\* the dynasty tries the genesis block in storage may hold
RankGenesisDynasties == {{}, {2}, {1, 3}, RankAddrs \ {1}}

\* the account states of a call, one more with equal balances everywhere
RankAccountStates ==
  AccountStates \cup {[balance |-> [a \in Addrs |-> 1],
                       sum32 |-> [id \in 0..MaxTime |-> [hi |-> 0, lo |-> 0]]]}

InitRank ==
  /\ InitChain(<<>>)
  /\ intSize = 64
  /\ dposCtx = NoDposCtx
  /\ kickCall = NoKickCall
  /\ \E cands \in SUBSET RankAddrs, f \in [RankDelegators -> 0..MaxRankAddr],
        g \in RankGenesisDynasties, accounts \in RankAccountStates :
       rank = [op |-> "input",
               candidateTrie |-> DynastyTrieOf(cands),
               delegateTrie |-> DelegateTrieOf(f),
               stor |-> [genesisDynasty |-> DynastyTrieOf(g)],
               accounts |-> accounts,
               tallied |-> <<>>,
               votes |-> <<>>,
               candidates |-> <<>>]

\* rank.tallied is the map tallyVotes returned, rank.votes the map as it is
\* now, rank.candidates the list chooseCandidates returned.
\* the DynastyContext of the call: handles 1 and 2 on the two tries
rankHeap == <<rank.candidateTrie, rank.delegateTrie>>
rankContext ==
  [CandidateTrie |-> 1, DelegateTrie |-> 2, Accounts |-> rank.accounts,
   Storage |-> rank.stor]

CallTallyVotes ==
  /\ rank.op = "input"
  /\ rank' = [rank EXCEPT !.op = "tallyVotes",
                          !.tallied = <<tallyVotes(rankHeap, rankContext)>>,
                          !.votes = <<tallyVotes(rankHeap, rankContext)>>]
  /\ UNCHANGED <<chainVars, dposCtx, kickCall>>

CallChooseCandidates ==
  /\ rank.op = "tallyVotes"
  /\ rank' = [rank EXCEPT !.op = "chooseCandidates",
                          !.candidates = <<chooseCandidates(rank.votes[1], rank.stor,
                                                            rank.candidateTrie)>>,
                          !.votes = <<votesAfterChooseCandidates(rank.votes[1], rank.stor,
                                                                 rank.candidateTrie)>>]
  /\ UNCHANGED <<chainVars, dposCtx, kickCall>>

NextRank ==
  \/ CallTallyVotes
  \/ CallChooseCandidates

SpecRank == InitRank /\ [][NextRank]_vars

\* ------------------------------------------------- the context store
\* A DposContext under the batch protocol.  A BatchTrie is its contents, its
\* batching flag and its change log; an entry of the log keeps the key and
\* the value the key had before the write (<<>> when it had none).
TrieNames ==
  {"dynastyTrie", "nextDynastyTrie", "delegateTrie", "voteTrie", "candidateTrie",
   "mintCntTrie"}

batchTrie(contents) == [trie |-> contents, batching |-> FALSE, changelog |-> <<>>]

\* BatchTrie.RootHash: nil for the empty trie, else the digest of the contents
trieRootHash(bt) == IF TrieEmpty(bt.trie) THEN <<>> ELSE <<bt.trie>>

\* what trie.NewBatchTrie returns beside an error
NilBatchTrie == batchTrie({})

\* trie.NewBatchTrie(rootHash, storage): the trie of that root, read from the
\* nodes in storage
LoadBatchTrie(rootHash, nodes) ==
  IF rootHash = <<>> THEN [trie |-> batchTrie({}), err |-> Nil]
  ELSE IF rootHash[1] \in nodes THEN [trie |-> batchTrie(rootHash[1]), err |-> Nil]
  ELSE [trie |-> NilBatchTrie, err |-> ErrKeyNotFound]

oldValue(bt, k) == IF TrieHas(bt.trie, k) THEN <<TrieGet(bt.trie, k)>> ELSE <<>>

BatchPut(bt, k, v) ==
  [bt EXCEPT !.trie = PutEntry(@, k, v),
             !.changelog = IF bt.batching
                           THEN Append(@, [key |-> k, old |-> oldValue(bt, k)])
                           ELSE @]

\* Del of a key the trie does not hold fails and changes nothing
BatchDel(bt, k) ==
  IF ~TrieHas(bt.trie, k) THEN bt
  ELSE [bt EXCEPT !.trie = DelEntry(@, k),
                  !.changelog = IF bt.batching
                                THEN Append(@, [key |-> k, old |-> oldValue(bt, k)])
                                ELSE @]

BatchBeginBatch(bt) == [bt EXCEPT !.batching = TRUE]
BatchCommit(bt) == [bt EXCEPT !.batching = FALSE, !.changelog = <<>>]

\* the log undone from its last entry to its first
RECURSIVE undoLog(_, _, _)
undoLog(contents, changelog, i) ==
  IF i = 0 THEN contents
  ELSE undoLog(IF changelog[i].old = <<>> THEN DelEntry(contents, changelog[i].key)
               ELSE PutEntry(contents, changelog[i].key, changelog[i].old[1]),
               changelog, i - 1)

BatchRollBack(bt) ==
  [trie |-> undoLog(bt.trie, bt.changelog, Len(bt.changelog)),
   batching |-> FALSE, changelog |-> <<>>]

NewDposContext ==
  [dynastyTrie |-> batchTrie({}), nextDynastyTrie |-> batchTrie({}),
   delegateTrie |-> batchTrie({}), voteTrie |-> batchTrie({}),
   candidateTrie |-> batchTrie({}), mintCntTrie |-> batchTrie({})]

\* DposContext.RootHash: the digest of the six roots, written in this order
RootHash(dc) ==
  trieRootHash(dc.dynastyTrie) \o trieRootHash(dc.nextDynastyTrie)
    \o trieRootHash(dc.delegateTrie) \o trieRootHash(dc.voteTrie)
    \o trieRootHash(dc.candidateTrie) \o trieRootHash(dc.mintCntTrie)

BeginBatch(dc) ==
  [dc EXCEPT !.delegateTrie = BatchBeginBatch(@),
             !.dynastyTrie = BatchBeginBatch(@),
             !.nextDynastyTrie = BatchBeginBatch(@),
             !.candidateTrie = BatchBeginBatch(@),
             !.voteTrie = BatchBeginBatch(@),
             !.mintCntTrie = BatchBeginBatch(@)]

Commit(dc) ==
  [dc EXCEPT !.delegateTrie = BatchCommit(@),
             !.dynastyTrie = BatchCommit(@),
             !.nextDynastyTrie = BatchCommit(@),
             !.candidateTrie = BatchCommit(@),
             !.voteTrie = BatchCommit(@),
             !.mintCntTrie = BatchCommit(@)]

\* RollBack that leaves the mintCnt trie out
RollBack_withoutMintCnt(dc) ==
  [dc EXCEPT !.delegateTrie = BatchRollBack(@),
             !.dynastyTrie = BatchRollBack(@),
             !.nextDynastyTrie = BatchRollBack(@),
             !.candidateTrie = BatchRollBack(@),
             !.voteTrie = BatchRollBack(@)]

RollBack(dc) ==
  [dc EXCEPT !.delegateTrie = BatchRollBack(@),
             !.dynastyTrie = BatchRollBack(@),
             !.nextDynastyTrie = BatchRollBack(@),
             !.candidateTrie = BatchRollBack(@),
             !.voteTrie = BatchRollBack(@),
             !.mintCntTrie = BatchRollBack(@)]

\* corepb.DposContext, the header form: six roots
ToProto(dc) ==
  [DynastyRoot |-> trieRootHash(dc.dynastyTrie),
   NextDynastyRoot |-> trieRootHash(dc.nextDynastyTrie),
   DelegateRoot |-> trieRootHash(dc.delegateTrie),
   CandidateRoot |-> trieRootHash(dc.candidateTrie),
   VoteRoot |-> trieRootHash(dc.voteTrie),
   MintCntRoot |-> trieRootHash(dc.mintCntTrie)]

\* FromProto, given the six tries loaded from the roots of msg: each field is
\* assigned what NewBatchTrie returned before its error is tested, so the
\* tries are assigned in order up to and including the first that failed to
\* load
fromProtoLoaded(dc, d, n, g, c, v, m) ==
  IF d.err # Nil THEN [dc |-> [dc EXCEPT !.dynastyTrie = d.trie], err |-> d.err]
  ELSE IF n.err # Nil
  THEN [dc |-> [dc EXCEPT !.dynastyTrie = d.trie, !.nextDynastyTrie = n.trie],
        err |-> n.err]
  ELSE IF g.err # Nil
  THEN [dc |-> [dc EXCEPT !.dynastyTrie = d.trie, !.nextDynastyTrie = n.trie,
                          !.delegateTrie = g.trie],
        err |-> g.err]
  ELSE IF c.err # Nil
  THEN [dc |-> [dc EXCEPT !.dynastyTrie = d.trie, !.nextDynastyTrie = n.trie,
                          !.delegateTrie = g.trie, !.candidateTrie = c.trie],
        err |-> c.err]
  ELSE IF v.err # Nil
  THEN [dc |-> [dc EXCEPT !.dynastyTrie = d.trie, !.nextDynastyTrie = n.trie,
                          !.delegateTrie = g.trie, !.candidateTrie = c.trie,
                          !.voteTrie = v.trie],
        err |-> v.err]
  ELSE IF m.err # Nil
  THEN [dc |-> [dynastyTrie |-> d.trie, nextDynastyTrie |-> n.trie,
                delegateTrie |-> g.trie, candidateTrie |-> c.trie,
                voteTrie |-> v.trie, mintCntTrie |-> m.trie],
        err |-> m.err]
  ELSE [dc |-> [dynastyTrie |-> d.trie, nextDynastyTrie |-> n.trie,
                delegateTrie |-> g.trie, candidateTrie |-> c.trie,
                voteTrie |-> v.trie, mintCntTrie |-> m.trie],
        err |-> Nil]

\* FromProto that reads the roots in the order of the digest
FromProto_digestOrder(dc, msg, nodes) ==
  fromProtoLoaded(dc,
                  LoadBatchTrie(msg.DynastyRoot, nodes),
                  LoadBatchTrie(msg.NextDynastyRoot, nodes),
                  LoadBatchTrie(msg.DelegateRoot, nodes),
                  LoadBatchTrie(msg.VoteRoot, nodes),
                  LoadBatchTrie(msg.CandidateRoot, nodes),
                  LoadBatchTrie(msg.MintCntRoot, nodes))

FromProto(dc, msg, nodes) ==
  fromProtoLoaded(dc,
                  LoadBatchTrie(msg.DynastyRoot, nodes),
                  LoadBatchTrie(msg.NextDynastyRoot, nodes),
                  LoadBatchTrie(msg.DelegateRoot, nodes),
                  LoadBatchTrie(msg.CandidateRoot, nodes),
                  LoadBatchTrie(msg.VoteRoot, nodes),
                  LoadBatchTrie(msg.MintCntRoot, nodes))

\* the contents of the six tries
contentsOf(dc) == [name \in TrieNames |-> dc[name].trie]

\* the keys and the values of the writes
StoreKeys == {1}

noContents == contentsOf(NewDposContext)
StoreValues == {1, 2}

\* dposCtx.dc      the DposContext
\* dposCtx.nodes   the trie contents whose nodes are in storage
\* dposCtx.msg     the last header form taken (<<>>: none)
\* dposCtx.writes  the number of writes so far
\* dposCtx.begun, sent, rootBegun, rootSent
\*                 the contents and the RootHash at the last BeginBatch and
\*                 at the last ToProto
\* dposCtx.prev    the contents just before the RollBack or the FromProto that
\*                 was the last operation (noContents after another one)
InitStore ==
  /\ InitChain(<<>>)
  /\ intSize = 64
  /\ rank = NoRank
  /\ kickCall = NoKickCall
  /\ dposCtx = [op |-> "NewDposContext", dc |-> NewDposContext, nodes |-> {},
                msg |-> <<>>, writes |-> 0, err |-> Nil,
                begun |-> contentsOf(NewDposContext),
                rootBegun |-> RootHash(NewDposContext),
                sent |-> contentsOf(NewDposContext),
                rootSent |-> RootHash(NewDposContext),
                prev |-> noContents]

InBatch == dposCtx.dc.delegateTrie.batching

CallBeginBatch ==
  /\ ~InBatch
  /\ dposCtx' = [dposCtx EXCEPT !.op = "BeginBatch", !.err = Nil, !.prev = noContents,
                                !.dc = BeginBatch(@),
                                !.begun = contentsOf(dposCtx.dc),
                                !.rootBegun = RootHash(dposCtx.dc)]
  /\ UNCHANGED <<chainVars, rank, kickCall>>

CallCommit ==
  /\ InBatch
  /\ dposCtx' = [dposCtx EXCEPT !.op = "Commit", !.err = Nil, !.dc = Commit(@),
                                !.prev = noContents]
  /\ UNCHANGED <<chainVars, rank, kickCall>>

CallRollBack ==
  /\ InBatch
  /\ dposCtx' = [dposCtx EXCEPT !.op = "RollBack", !.err = Nil, !.dc = RollBack(@),
                                !.prev = contentsOf(dposCtx.dc)]
  /\ UNCHANGED <<chainVars, rank, kickCall>>

\* a Put or a Del on one of the six tries
WriteTrie ==
  /\ dposCtx.writes < MaxWrites
  /\ \E name \in TrieNames, k \in StoreKeys :
       \/ \E v \in StoreValues :
            dposCtx' = [dposCtx EXCEPT !.op = "Put", !.err = Nil, !.prev = noContents,
                          !.writes = @ + 1,
                          !.dc[name] = BatchPut(@, k, v),
                          !.nodes = @ \cup {PutEntry(dposCtx.dc[name].trie, k, v)}]
       \/ dposCtx' = [dposCtx EXCEPT !.op = "Del", !.prev = noContents,
                        !.err = IF TrieHas(dposCtx.dc[name].trie, k) THEN Nil
                                ELSE ErrKeyNotFound,
                        !.writes = @ + 1,
                        !.dc[name] = BatchDel(@, k),
                        !.nodes = @ \cup {DelEntry(dposCtx.dc[name].trie, k)}]
  /\ UNCHANGED <<chainVars, rank, kickCall>>

CallToProto ==
  /\ dposCtx' = [dposCtx EXCEPT !.op = "ToProto", !.err = Nil, !.prev = noContents,
                                !.msg = <<ToProto(dposCtx.dc)>>,
                                !.sent = contentsOf(dposCtx.dc),
                                !.rootSent = RootHash(dposCtx.dc)]
  /\ UNCHANGED <<chainVars, rank, kickCall>>

fromProtoReturns(r) ==
  dposCtx' = [dposCtx EXCEPT !.op = "FromProto", !.err = r.err, !.dc = r.dc,
                             !.prev = contentsOf(dposCtx.dc)]

CallFromProto ==
  /\ dposCtx.msg # <<>>
  /\ fromProtoReturns(FromProto(dposCtx.dc, dposCtx.msg[1], dposCtx.nodes))
  /\ UNCHANGED <<chainVars, rank, kickCall>>

NextStore ==
  \/ CallBeginBatch
  \/ CallCommit
  \/ CallRollBack
  \/ WriteTrie
  \/ CallToProto
  \/ CallFromProto

SpecStore == InitStore /\ [][NextStore]_vars

\* ------------------------------------------------- kick-out on its own
\* Block.kickoutCandidate called on a block whose six tries are arbitrary:
\* a delegator may be listed under several delegatees, and its vote may name
\* another delegatee than the one it is listed under, or nobody.
KickAddrs == {1, 2, 3}
KickDelegatees == {1, 2}

\* the vote trie in which delegator d votes g[d] (0: for nobody)
VoteTrieOf(g) == {<<d, g[d]>> : d \in {x \in DOMAIN g : g[x] # 0}}
\* the delegate trie holding the <<delegatee, delegator>> pairs of P
DelegateTrieOfPairs(P) == {<<p, p[2]>> : p \in P}

\* the dynasty, nextDynasty and mintCnt tries of the block of the call
KickOtherTries ==
  { [dynastyTrie |-> {}, nextDynastyTrie |-> {}, mintCntTrie |-> {}],
    [dynastyTrie |-> DynastyTrieOf({1, 2}), nextDynastyTrie |-> DynastyTrieOf({2, 3}),
     mintCntTrie |-> {<<<<0, 1>>, 1>>, <<<<0, 2>>, 2>>}] }

InitKick ==
  /\ InitChain(<<>>)
  /\ intSize = 64
  /\ rank = NoRank
  /\ dposCtx = NoDposCtx
  /\ \E cands \in SUBSET KickAddrs, P \in SUBSET (KickDelegatees \X KickAddrs),
        g \in [KickAddrs -> {0} \cup KickDelegatees], o \in KickOtherTries,
        c \in KickDelegatees :
       kickCall = [op |-> "input",
                   candidate |-> c,
                   before |-> [dynastyTrie |-> o.dynastyTrie,
                               nextDynastyTrie |-> o.nextDynastyTrie,
                               delegateTrie |-> DelegateTrieOfPairs(P),
                               candidateTrie |-> DynastyTrieOf(cands),
                               voteTrie |-> VoteTrieOf(g),
                               mintCntTrie |-> o.mintCntTrie],
                   after |-> EmptyDposContext,
                   err |-> Nil]

\* block.kickoutCandidate(candidate); every path of kickout that meets no
\* storage fault returns nil
CallKickout ==
  /\ kickCall.op = "input"
  /\ kickCall' =
       [kickCall EXCEPT
          !.op = "kickout",
          !.after = blockKickoutCandidate([timestamp |-> GenesisTimestamp,
                                           dposContext |-> kickCall.before],
                                          kickCall.candidate).dposContext,
          !.err = Nil]
  /\ UNCHANGED <<chainVars, rank, dposCtx>>

NextKick == CallKickout

SpecKick == InitKick /\ [][NextKick]_vars

\* ------------------------------------------------------------ properties
Called == phase = "running" /\ last.op = "NextDynastyContext"
Returned == Called /\ ret.err = Nil
BaseDynastyID == ret.timestamp \div DynastyInterval
NewDynastyID == (ret.timestamp + ret.elapsed) \div DynastyInterval
StepIds == [k \in DOMAIN ret.steps |-> ret.steps[k].id]
IdsFrom(lo, hi) == [k \in 1..(hi - lo) |-> lo + k - 1]
ConfDistinct == \A i, j \in DOMAIN conf : conf[i] = conf[j] => i = j
GenesisCandidates == TrieKeys(genesis.context[1].CandidateTrie)

\* C1 (as stated): after a call that ran an election and returned a context,
\* the dynasty trie of that context holds exactly DynastySize validators,
\* whenever the genesis context had at least SafeSize validators.
C1_DynastySizeExact ==
  (Returned /\ BaseDynastyID < NewDynastyID /\ Cardinality(GenesisCandidates) >= SafeSize)
    => Cardinality(ret.context[1].DynastyTrie) = DynastySize

\* the nextDynasty an election step built from its ranked candidates has the
\* size the selection gives it: every candidate when they are fewer than
\* DynastySize; else DynastySize of them, or DynastySize - 1 when the tail
\* pick fell on a candidate already selected, which an int of 64 bits rules out
ElectedSize(step) ==
  LET n == Len(step.candidates)
      elected == TrieKeys(step.nextDynastyAfter)
  IN /\ elected \subseteq {step.candidates[i].Address : i \in DOMAIN step.candidates}
     /\ n < DynastySize => Cardinality(elected) = n
     /\ n >= DynastySize =>
          /\ Cardinality(elected) \in {DynastySize - 1, DynastySize}
          /\ intSize = 64 => Cardinality(elected) = DynastySize

\* C1 (amended): after such a call the dynasty trie of the returned context
\* is the nextDynasty trie as it stood before the last election step, and
\* holds at most DynastySize validators.  It is either the genesis
\* nextDynasty, which holds the distinct addresses among the first
\* DynastySize configured ones (fewer than SafeSize when the configuration
\* repeats addresses), or it holds at least SafeSize validators.  Every
\* election step of the call built a nextDynasty of all its k ranked
\* candidates when k < DynastySize, and of DynastySize of them when
\* k >= DynastySize (DynastySize - 1 is possible with an int of 32 bits).
C1_DynastyIsPreviousNext ==
  (Returned /\ BaseDynastyID < NewDynastyID /\ Cardinality(GenesisCandidates) >= SafeSize)
    => LET dynasty == ret.context[1].DynastyTrie
           genesisNext == genesis.context[1].NextDynastyTrie
       IN /\ dynasty = ret.steps[Len(ret.steps)].nextDynastyBefore
          /\ Cardinality(dynasty) <= DynastySize
          /\ \/ /\ dynasty = genesisNext
                /\ TrieKeys(dynasty) =
                     {conf[i] : i \in {j \in DOMAIN conf : j <= DynastySize}}
             \/ Cardinality(dynasty) >= SafeSize
          /\ \A k \in DOMAIN ret.steps : ElectedSize(ret.steps[k])
          /\ Len(ret.steps) >= 2 =>
               dynasty = ret.steps[Len(ret.steps) - 1].nextDynastyAfter

\* an election ran and returned a dynasty smaller than DynastySize that was
\* itself elected (not the genesis dynasty)
C1_Witness ==
  /\ Returned
  /\ BaseDynastyID > 0
  /\ BaseDynastyID < NewDynastyID
  /\ Cardinality(GenesisCandidates) >= SafeSize
  /\ Cardinality(ret.context[1].DynastyTrie) < DynastySize
  /\ ret.context[1].DynastyTrie # genesis.context[1].NextDynastyTrie

\* on a configuration that repeats an address, an election returned the
\* genesis nextDynasty of one validator as dynasty
C1_WitnessRepeated ==
  /\ Returned
  /\ BaseDynastyID < NewDynastyID
  /\ Cardinality(GenesisCandidates) >= SafeSize
  /\ Cardinality(ret.context[1].DynastyTrie) = 1

\* a call of two steps returned as dynasty a set of DynastySize validators
\* that its first step elected from more candidates than that
C1_WitnessElectedFull ==
  /\ Returned
  /\ Len(ret.steps) = 2
  /\ Len(ret.steps[1].candidates) > DynastySize
  /\ Cardinality(ret.context[1].DynastyTrie) = DynastySize
  /\ ret.context[1].DynastyTrie # genesis.context[1].NextDynastyTrie

\* C2 (as stated): a call that advances from dynasty b to dynasty n runs one
\* election step for each id of b..n-1, in increasing order, also when b = 0.
C2_StepsAllIds ==
  Returned => StepIds = IdsFrom(BaseDynastyID, NewDynastyID)

\* C2 (amended): from a base dynasty b > 0 the call runs one election step
\* for each id of b..n-1 in increasing order (none when n = b); from b = 0
\* it runs the steps of the last two ids only, max(0, n-2)..n-1.
C2_StepsIds ==
  Returned =>
    StepIds = IF BaseDynastyID > 0 \/ NewDynastyID < 2
              THEN IdsFrom(BaseDynastyID, NewDynastyID)
              ELSE IdsFrom(NewDynastyID - 2, NewDynastyID)

\* a call from dynasty 0 across three boundaries has returned
C2_Witness ==
  Returned /\ BaseDynastyID = 0 /\ NewDynastyID = 3 /\ Len(ret.steps) = 2

\* a call from a dynasty > 0 across three boundaries has returned
C2_WitnessLater ==
  Returned /\ BaseDynastyID > 0 /\ NewDynastyID = BaseDynastyID + 3

\* what kickout(c) leaves behind in the three tries it is given
KickedOut(c, candidateTrie, delegateTrie, voteTrie) ==
  /\ ~TrieHas(candidateTrie, c)
  /\ \A e \in delegateTrie : e[1][1] # c
  /\ \A e \in voteTrie : e[2] # c

\* C3: after kickout(c), on the block or inside an election, c is no key of
\* the candidate trie, no delegate key has prefix c and no vote has value c.
C3_KickoutRemoves ==
  /\ (phase = "running" /\ last.op = "kickoutCandidate")
       => KickedOut(last.arg, block.dposContext.candidateTrie,
                    block.dposContext.delegateTrie, block.dposContext.voteTrie)
  /\ Called =>
       \A k \in DOMAIN ret.steps :
         \A j \in DOMAIN ret.steps[k].kicked :
           KickedOut(ret.steps[k].kicked[j], ret.steps[k].candidateAfter,
                     ret.steps[k].delegateAfter, ret.steps[k].voteAfter)

\* kickoutCandidate found its candidate and removed it, others remaining
C3_Witness ==
  /\ phase = "running"
  /\ last.op = "kickoutCandidate"
  /\ last.hit
  /\ block.dposContext.voteTrie # {}
  /\ last.arg \in GenesisCandidates

\* C4: the call returns ErrNotBlockForgTime exactly when the new timestamp
\* is off the slot grid, and then no election step has run.
C4_NotBlockForgeTime ==
  Called =>
    /\ ret.err = ErrNotBlockForgTime
         <=> ((ret.timestamp + ret.elapsed) % DynastyInterval) % BlockInterval # 0
    /\ ret.err = ErrNotBlockForgTime => ret.steps = <<>> /\ ret.context = <<>>

\* a misaligned call that crosses a dynasty boundary was refused
C4_Witness ==
  Called /\ ret.err = ErrNotBlockForgTime /\ BaseDynastyID < NewDynastyID

\* C5: a call of NextDynastyContext leaves the six tries of the block's own
\* context as they were, whether it succeeds or fails.
C5_BlockUnchanged ==
  Called => block.dposContext = ret.before

\* an election of the call kicked a candidate out of the cloned tries
C5_Witness ==
  /\ Called
  /\ \E k \in DOMAIN ret.steps :
       ret.steps[k].candidateAfter # ret.steps[k].candidateBefore

\* every vote of the three tries goes to a candidate
VotesForCandidates(candidateTrie, voteTrie) ==
  \A e \in voteTrie : TrieHas(candidateTrie, e[2])

\* C6: on the block and in every returned context, each vote d -> c has c
\* as a key of the candidate trie.
C6_VoteTargetsAreCandidates ==
  /\ phase = "running" =>
       VotesForCandidates(block.dposContext.candidateTrie, block.dposContext.voteTrie)
  /\ Returned =>
       VotesForCandidates(ret.context[1].CandidateTrie, ret.context[1].VoteTrie)

\* an election has kicked a candidate and the returned context keeps votes
C6_Witness ==
  /\ Returned
  /\ ret.context[1].VoteTrie # {}
  /\ \E k \in DOMAIN ret.steps :
       ret.steps[k].candidateAfter # ret.steps[k].candidateBefore

\* every delegator of the delegate trie has a vote
DelegatorsVote(delegateTrie, voteTrie) ==
  \A e \in delegateTrie : TrieHas(voteTrie, e[2])

\* C7: on the block and in every returned context, each delegate entry
\* (c ++ d) -> d has d as a key of the vote trie.
C7_DelegatorsHaveVotes ==
  /\ phase = "running" =>
       DelegatorsVote(block.dposContext.delegateTrie, block.dposContext.voteTrie)
  /\ Returned =>
       DelegatorsVote(ret.context[1].DelegateTrie, ret.context[1].VoteTrie)

\* the block has lost a candidate to kickoutCandidate and keeps delegations
C7_Witness ==
  /\ phase = "running"
  /\ last.op = "kickoutCandidate"
  /\ last.hit
  /\ block.dposContext.delegateTrie # {}

\* the kick-out rule of one validator, on the tries before kickoutDynasty
MustKick(step, v) ==
  /\ ~(/\ TrieHas(step.mintCnt, <<step.id, v>>)
       /\ TrieGet(step.mintCnt, <<step.id, v>>) >= 1)
  /\ ~(/\ TrieHas(storage.genesisDynasty, v)
       /\ TrieHas(step.candidateBefore, v))

\* C8: kickoutDynasty(dyn) kicks exactly the validators of the dynasty trie
\* that have no mint count of at least 1 for dyn and are not active
\* bootstrap validators; every other candidate stays a candidate.
C8_KickoutDynastyRule ==
  Called =>
    \A k \in DOMAIN ret.steps :
      LET step == ret.steps[k]
          kicked == {step.kicked[j] : j \in DOMAIN step.kicked}
      IN (step.kickoutRan /\ step.err # ErrKeyNotFound) =>
           /\ kicked = {v \in TrieKeys(step.dynastyBefore) : MustKick(step, v)}
           /\ TrieKeys(step.candidateAfter) = TrieKeys(step.candidateBefore) \ kicked

\* a kick-out spared a validator for its mint count, spared a bootstrap
\* validator without one, and removed a candidate
C8_Witness ==
  /\ Called
  /\ \E k \in DOMAIN ret.steps :
       LET step == ret.steps[k]
       IN /\ step.kickoutRan
          /\ step.candidateAfter # step.candidateBefore
          /\ \E v \in TrieKeys(step.dynastyBefore) :
               /\ ~TrieHas(step.mintCnt, <<step.id, v>>)
               /\ TrieHas(step.candidateAfter, v)

\* a kick-out spared a non-bootstrap validator for its mint count
C8_WitnessMint ==
  /\ Called
  /\ \E k \in DOMAIN ret.steps :
       LET step == ret.steps[k]
       IN /\ step.kickoutRan
          /\ \E v \in TrieKeys(step.dynastyBefore) :
               /\ TrieHas(step.mintCnt, <<step.id, v>>)
               /\ ~TrieHas(storage.genesisDynasty, v)
               /\ TrieHas(step.candidateAfter, v)

\* C9: an election step fails with ErrTooFewCandidates exactly when fewer
\* than SafeSize candidates are left after its kick-out; the call then
\* returns no context and the step does not rotate dynasty / nextDynasty.
C9_TooFewCandidates ==
  Called =>
    /\ \A k \in DOMAIN ret.steps :
         LET step == ret.steps[k]
         IN step.err # ErrKeyNotFound =>
              /\ step.err = ErrTooFewCandidates
                   <=> Cardinality(step.candidateAfter) < SafeSize
              /\ step.err = ErrTooFewCandidates =>
                   /\ k = Len(ret.steps)
                   /\ ret.err = ErrTooFewCandidates
                   /\ ret.context = <<>>
                   /\ step.dynastyAfter = step.dynastyBefore
                   /\ step.nextDynastyAfter = step.nextDynastyBefore
    /\ ret.err = ErrTooFewCandidates =>
         /\ ret.steps # <<>>
         /\ ret.steps[Len(ret.steps)].err = ErrTooFewCandidates

\* an election failed after its own kick-out left too few candidates
C9_Witness ==
  /\ Called
  /\ ret.err = ErrTooFewCandidates
  /\ LET step == ret.steps[Len(ret.steps)]
     IN /\ Cardinality(step.candidateBefore) >= SafeSize
        /\ Cardinality(step.candidateAfter) < SafeSize

\* the first n elements of a sequence, as a set
FirstOf(s, n) == {s[i] : i \in {j \in DOMAIN s : j <= n}}

\* C10: for n >= SafeSize distinct configured addresses the genesis context
\* has every address as candidate, self-voter and self-delegator, the first
\* min(n, DynastySize) of them as dynasty and as nextDynasty, and no mint
\* count.
C10_GenesisContext ==
  (/\ phase # "config"
   /\ Len(conf) >= SafeSize
   /\ ConfDistinct
   /\ \A i \in DOMAIN conf : conf[i] \in Addrs)
    => /\ genesis.err = Nil
       /\ LET g == genesis.context[1]
              all == {conf[i] : i \in DOMAIN conf}
              first == FirstOf(conf, DynastySize)
          IN /\ g.CandidateTrie = {<<v, v>> : v \in all}
             /\ g.VoteTrie = {<<v, v>> : v \in all}
             /\ g.DelegateTrie = {<<<<v, v>>, v>> : v \in all}
             /\ g.DynastyTrie = {<<v, v>> : v \in first}
             /\ g.NextDynastyTrie = g.DynastyTrie
             /\ g.MintCntTrie = {}
             /\ Cardinality(g.DynastyTrie) = IF Len(conf) < DynastySize THEN Len(conf)
                                             ELSE DynastySize

\* a genesis context was built from more than DynastySize distinct
\* addresses, the first of which is not the smallest
C10_Witness ==
  /\ phase = "running"
  /\ ConfDistinct
  /\ Len(conf) > DynastySize
  /\ conf[1] # 1


ConfWellFormed == \A i \in DOMAIN conf : conf[i] \in Addrs

\* C11: on a list of well-formed addresses GenesisDynastyContext fails with
\* ErrInitialDynastyNotEnough exactly when the list has fewer than SafeSize
\* entries, and then returns no context; with SafeSize entries or more
\* (distinct or not) it returns a context and no error.
C11_InitialDynastyNotEnough ==
  (phase # "config" /\ ConfWellFormed) =>
    /\ genesis.err = ErrInitialDynastyNotEnough <=> Len(conf) < SafeSize
    /\ genesis.err = ErrInitialDynastyNotEnough =>
         genesis.context = <<>> /\ phase = "failed"
    /\ Len(conf) >= SafeSize =>
         genesis.err = Nil /\ Len(genesis.context) = 1 /\ phase = "running"

\* a list of SafeSize - 1 well-formed addresses was refused
C11_Witness ==
  /\ phase = "failed"
  /\ ConfWellFormed
  /\ Len(conf) = SafeSize - 1
  /\ genesis.err = ErrInitialDynastyNotEnough

\* a list of exactly SafeSize entries, two of them equal, was accepted
C11_WitnessAccepted ==
  /\ phase = "running"
  /\ Len(conf) = SafeSize
  /\ ~ConfDistinct
  /\ genesis.err = Nil


Tallied == rank.op \in {"tallyVotes", "chooseCandidates"}
Ranked == rank.op = "chooseCandidates"
RankCandidates == TrieKeys(rank.candidateTrie)
ActiveBootstrap == TrieKeys(rank.stor.genesisDynasty) \cap RankCandidates
\* the delegators listed under delegatee c in the delegate trie
DelegatorsOf(c) == {e[2] : e \in {x \in rank.delegateTrie : x[1][1] = c}}

\* the sum of the balances of a set of accounts
RECURSIVE BalanceSum(_)
BalanceSum(S) ==
  IF S = {} THEN 0
  ELSE LET d == CHOOSE x \in S : TRUE
       IN rank.accounts.balance[d] + BalanceSum(S \ {d})

\* C12: chooseCandidates returns every candidate exactly once: first the
\* active bootstrap validators (genesis dynasty members that are candidates)
\* by ascending address, with zeroed score, then the other candidates by
\* descending tally score, ties by ascending address.
C12_ChooseCandidatesOrder ==
  Ranked =>
    LET cs == rank.candidates[1]
        votes == rank.tallied[1]
        nb == Cardinality(ActiveBootstrap)
    IN /\ Len(cs) = Cardinality(RankCandidates)
       /\ {cs[i].Address : i \in DOMAIN cs} = RankCandidates
       /\ \A i \in DOMAIN cs :
            IF i <= nb
            THEN cs[i].Address \in ActiveBootstrap /\ cs[i].Votes = 0
            ELSE cs[i].Address \notin ActiveBootstrap
                   /\ cs[i].Votes = votes[cs[i].Address]
       /\ \A i, j \in DOMAIN cs :
            (i < j /\ j <= nb) => cs[i].Address < cs[j].Address
       /\ \A i, j \in DOMAIN cs :
            (nb < i /\ i < j) =>
              \/ cs[i].Votes > cs[j].Votes
              \/ cs[i].Votes = cs[j].Votes /\ cs[i].Address < cs[j].Address

\* two bootstrap validators with a smaller tally than a candidate ranked
\* after them, and two other candidates ranked against their address order
C12_Witness ==
  /\ Ranked
  /\ LET cs == rank.candidates[1]
         votes == rank.tallied[1]
     IN /\ Len(cs) = 4
        /\ Cardinality(ActiveBootstrap) = 2
        /\ votes[cs[2].Address] < votes[cs[3].Address]
        /\ cs[3].Address > cs[4].Address
        /\ cs[3].Votes > cs[4].Votes

\* two candidates outside the bootstrap set with equal positive scores
C12_WitnessTie ==
  /\ Ranked
  /\ LET cs == rank.candidates[1]
     IN \E i \in DOMAIN cs :
          /\ i > Cardinality(ActiveBootstrap)
          /\ i + 1 \in DOMAIN cs
          /\ cs[i].Votes = cs[i + 1].Votes
          /\ cs[i].Votes > 0

\* C13: the keys of the map tallyVotes returns are the candidates, the score
\* of candidate c is the sum of the balances of the delegators listed under
\* c in the delegate trie (0 when none is), and the delegate entries of a
\* delegatee that is no candidate add to no score.
C13_TallyVotes ==
  Tallied =>
    LET votes == rank.tallied[1]
    IN /\ DOMAIN votes = RankCandidates
       /\ \A c \in RankCandidates : votes[c] = BalanceSum(DelegatorsOf(c))
       /\ \A c \in RankCandidates : DelegatorsOf(c) = {} => votes[c] = 0

\* a tally with a candidate nobody delegated to, a candidate with two
\* delegators of positive balance, and a delegation to a non-candidate
C13_Witness ==
  /\ Tallied
  /\ \E c \in RankCandidates : DelegatorsOf(c) = {}
  /\ \E c \in RankCandidates :
       /\ Cardinality(DelegatorsOf(c)) >= 2
       /\ \A d \in DelegatorsOf(c) : rank.accounts.balance[d] > 0
       /\ rank.tallied[1][c] >= 2
  /\ \E e \in rank.delegateTrie :
       e[1][1] \notin RankCandidates /\ rank.accounts.balance[e[2]] > 0


\* the slot of a timestamp within its dynasty
SlotOf(timestamp) == ((timestamp % DynastyInterval) \div BlockInterval) % DynastySize
\* the number of members of a dynasty trie that come before v in key order
RankIn(dynasty, v) == Cardinality({k \in TrieKeys(dynasty) : k < v})

\* C14: a returned context has TimeStamp = block.timestamp + elapsedSecond,
\* Offset = ((TimeStamp % DynastyInterval) / BlockInterval) % DynastySize,
\* and Proposer the member of its dynasty trie with Offset members before it
\* in key order when Offset is smaller than the size of the dynasty, the
\* nil hash otherwise.
C14_OffsetAndProposer ==
  Returned =>
    LET c == ret.context[1]
        dynasty == c.DynastyTrie
    IN /\ c.TimeStamp = ret.timestamp + ret.elapsed
       /\ c.Offset = SlotOf(ret.timestamp + ret.elapsed)
       /\ \A e \in dynasty : e[1] = e[2]
       /\ IF c.Offset < Cardinality(dynasty)
          THEN /\ c.Proposer \in TrieKeys(dynasty)
               /\ RankIn(dynasty, c.Proposer) = c.Offset
          ELSE c.Proposer = NilHash
       /\ c.Proposer # NilHash => c.Proposer \in TrieKeys(dynasty)

\* after an election the slot is past the middle of the dynasty interval and
\* the proposer is neither the first nor the last member of the new dynasty
C14_Witness ==
  /\ Returned
  /\ BaseDynastyID < NewDynastyID
  /\ LET c == ret.context[1]
     IN /\ c.Offset > 0
        /\ ((ret.timestamp + ret.elapsed) % DynastyInterval) \div BlockInterval
             >= DynastySize
        /\ c.Proposer # NilHash
        /\ RankIn(c.DynastyTrie, c.Proposer) + 1 < Cardinality(c.DynastyTrie)
        /\ c.DynastyTrie # ret.before.dynastyTrie

\* the slot has no proposer: the dynasty is smaller than the slot index
C14_WitnessNoProposer ==
  /\ Returned
  /\ ret.context[1].Proposer = NilHash
  /\ ret.context[1].DynastyTrie # {}


StoreOp(op) == dposCtx.op = op
\* the root of a trie of the given contents, and the six roots in the order
\* of the digest
RootOf(contents) == IF contents = {} THEN <<>> ELSE <<contents>>
DigestOf(c) ==
  RootOf(c.dynastyTrie) \o RootOf(c.nextDynastyTrie) \o RootOf(c.delegateTrie)
    \o RootOf(c.voteTrie) \o RootOf(c.candidateTrie) \o RootOf(c.mintCntTrie)

\* C15: after BeginBatch, any writes to any of the six tries and RollBack,
\* the contents of the six tries and the RootHash over them are what they
\* were before BeginBatch; BeginBatch opens a batch on all six tries, Commit
\* and RollBack close it on all six.
C15_RollBackRestores ==
  /\ StoreOp("RollBack") =>
       /\ contentsOf(dposCtx.dc) = dposCtx.begun
       /\ RootHash(dposCtx.dc) = dposCtx.rootBegun
       /\ RootHash(dposCtx.dc) = DigestOf(dposCtx.begun)
  /\ StoreOp("BeginBatch") =>
       \A name \in TrieNames : dposCtx.dc[name].batching
  /\ (StoreOp("RollBack") \/ StoreOp("Commit")) =>
       \A name \in TrieNames :
         ~dposCtx.dc[name].batching /\ dposCtx.dc[name].changelog = <<>>

\* a RollBack undid an update in one trie and an insertion in another
C15_Witness ==
  /\ StoreOp("RollBack")
  /\ dposCtx.begun.mintCntTrie # {}
  /\ dposCtx.prev.mintCntTrie # {}
  /\ dposCtx.prev.mintCntTrie # dposCtx.begun.mintCntTrie
  /\ dposCtx.begun.voteTrie = {}
  /\ dposCtx.prev.voteTrie # {}

\* a RollBack undid a deletion and two writes of the same key
C15_WitnessDelete ==
  /\ StoreOp("RollBack")
  /\ \E name \in TrieNames :
       /\ dposCtx.begun[name] # {}
       /\ dposCtx.prev[name] = {}
  /\ dposCtx.writes = MaxWrites

\* C16: FromProto on what ToProto returned, on the same storage, succeeds and
\* gives each of the six tries the contents the trie of the same name had at
\* ToProto, so RootHash, taken over dynasty, nextDynasty, delegate, vote,
\* candidate, mintCnt in this order, is what it was at ToProto.
C16_ProtoRoundTrip ==
  StoreOp("FromProto") =>
    /\ dposCtx.err = Nil
    /\ contentsOf(dposCtx.dc) = dposCtx.sent
    /\ RootHash(dposCtx.dc) = dposCtx.rootSent
    /\ RootHash(dposCtx.dc) = DigestOf(dposCtx.sent)

\* FromProto replaced tries that had changed since ToProto, the candidate
\* and the vote trie of the header being different and not empty
C16_Witness ==
  /\ StoreOp("FromProto")
  /\ dposCtx.prev # dposCtx.sent
  /\ dposCtx.sent.candidateTrie # {}
  /\ dposCtx.sent.voteTrie # {}
  /\ dposCtx.sent.candidateTrie # dposCtx.sent.voteTrie


\* the addresses of a ranked list, and of its first n entries
AddressesOf(cs) == {cs[i].Address : i \in DOMAIN cs}
DirectSelected(cs) == {cs[i].Address : i \in {j \in DOMAIN cs : j <= DynastySize - 1}}

\* C17: every election step that succeeds rotates the pair: its dynasty
\* afterwards is the nextDynasty it found, its nextDynasty afterwards is made
\* of candidates it ranked, the first of them included; the steps of a call
\* follow each other from the block's pair to the returned pair, so a call
\* across one boundary returns the block's nextDynasty as dynasty.
C17_Rotation ==
  Called =>
    /\ \A k \in DOMAIN ret.steps :
         LET step == ret.steps[k]
         IN /\ step.dynastyBefore =
                 IF k = 1 THEN ret.before.dynastyTrie
                 ELSE ret.steps[k - 1].dynastyAfter
            /\ step.nextDynastyBefore =
                 IF k = 1 THEN ret.before.nextDynastyTrie
                 ELSE ret.steps[k - 1].nextDynastyAfter
            /\ step.err = Nil =>
                 /\ step.dynastyAfter = step.nextDynastyBefore
                 /\ step.nextDynastyAfter # {}
                 /\ step.nextDynastyAfter
                      \subseteq DynastyTrieOf(AddressesOf(step.candidates))
                 /\ DynastyTrieOf(DirectSelected(step.candidates))
                      \subseteq step.nextDynastyAfter
    /\ (Returned /\ ret.steps # <<>>) =>
         /\ ret.context[1].DynastyTrie = ret.steps[Len(ret.steps)].dynastyAfter
         /\ ret.context[1].NextDynastyTrie = ret.steps[Len(ret.steps)].nextDynastyAfter
    /\ (Returned /\ NewDynastyID = BaseDynastyID + 1) =>
         /\ Len(ret.steps) = 1
         /\ ret.context[1].DynastyTrie = ret.before.nextDynastyTrie

\* a call across one boundary returned the block's nextDynasty as dynasty,
\* different from the block's dynasty and from the new nextDynasty
C17_Witness ==
  /\ Returned
  /\ NewDynastyID = BaseDynastyID + 1
  /\ ret.before.dynastyTrie # ret.before.nextDynastyTrie
  /\ ret.context[1].DynastyTrie = ret.before.nextDynastyTrie
  /\ ret.context[1].NextDynastyTrie # ret.before.nextDynastyTrie
  /\ ret.context[1].NextDynastyTrie # ret.before.dynastyTrie

\* the nextDynasty of a step is the first DynastySize - 1 ranked candidates
\* and, if there are more, one of the others
ElectedAsStated(step) ==
  LET cs == step.candidates
      k == Len(cs)
      elected == TrieKeys(step.nextDynastyAfter)
  IN /\ step.nextDynastyAfter = DynastyTrieOf(elected)
     /\ IF k > DynastySize - 1
        THEN \E offset \in (DynastySize - 1)..(k - 1) :
               elected = DirectSelected(cs) \cup {cs[offset + 1].Address}
        ELSE elected = DirectSelected(cs)
     /\ Cardinality(elected) = IF k < DynastySize THEN k ELSE DynastySize

\* C18 (as stated): in every election step that succeeds, on k ranked
\* candidates, the nextDynasty holds the first min(k, DynastySize - 1) of
\* them and, when k > DynastySize - 1, one more at an index offset with
\* DynastySize - 1 <= offset <= k - 1; it has min(k, DynastySize) members.
C18_ElectedSet ==
  Called =>
    \A k \in DOMAIN ret.steps :
      ret.steps[k].err = Nil => ElectedAsStated(ret.steps[k])

\* C18 (64-bit int): the statement holds in the builds whose int is 64 bits
\* wide, where int(hasher.Sum32()) is never negative.
C18_ElectedSet64 ==
  (Called /\ intSize = 64) =>
    \A k \in DOMAIN ret.steps :
      ret.steps[k].err = Nil => ElectedAsStated(ret.steps[k])

\* a step on more than DynastySize candidates, in a build with a 32-bit int,
\* picked a candidate that was selected directly: the nextDynasty has only
\* DynastySize - 1 members
C18_Witness ==
  /\ Called
  /\ intSize = 32
  /\ \E k \in DOMAIN ret.steps :
       /\ ret.steps[k].err = Nil
       /\ Len(ret.steps[k].candidates) > DynastySize
       /\ Cardinality(ret.steps[k].nextDynastyAfter) = DynastySize - 1

\* a step on more than DynastySize candidates picked the last of them
C18_WitnessTail ==
  /\ Called
  /\ intSize = 64
  /\ \E k \in DOMAIN ret.steps :
       LET cs == ret.steps[k].candidates
       IN /\ ret.steps[k].err = Nil
          /\ Len(cs) > DynastySize
          /\ TrieHas(ret.steps[k].nextDynastyAfter, cs[Len(cs)].Address)

\* what bootstrap protection keeps, in the block and in the last call
BootstrapKept ==
  /\ TrieKeys(storage.genesisDynasty) \subseteq TrieKeys(block.dposContext.candidateTrie)
  /\ Cardinality(block.dposContext.candidateTrie) >= SafeSize
  /\ Called =>
       /\ ret.err # ErrTooFewCandidates
       /\ \A k \in DOMAIN ret.steps :
            /\ TrieKeys(storage.genesisDynasty)
                 \subseteq TrieKeys(ret.steps[k].candidateAfter)
            /\ Cardinality(ret.steps[k].candidateAfter) >= SafeSize
  /\ Returned =>
       TrieKeys(storage.genesisDynasty) \subseteq TrieKeys(ret.context[1].CandidateTrie)

\* C19 (as stated): from a genesis context with at least SafeSize distinct
\* validators, under elections only, every member of the genesis dynasty
\* stays a candidate, the candidate trie keeps at least SafeSize members and
\* no election fails with ErrTooFewCandidates.
C19_BootstrapProtection ==
  (phase = "running" /\ Cardinality(GenesisCandidates) >= SafeSize) => BootstrapKept

\* C19 (amended): the same, from a genesis context whose dynasty trie holds
\* at least SafeSize members.
C19_BootstrapProtectionOfDynasty ==
  (phase = "running" /\ Cardinality(storage.genesisDynasty) >= SafeSize) => BootstrapKept

\* an election kicked a validator out while genesis validators without a
\* mint count sat in the same dynasty
C19_Witness ==
  /\ Called
  /\ Cardinality(storage.genesisDynasty) >= SafeSize
  /\ \E k \in DOMAIN ret.steps :
       LET step == ret.steps[k]
       IN /\ step.kickoutRan
          /\ step.kicked # <<>>
          /\ \E v \in TrieKeys(step.dynastyBefore) \cap TrieKeys(storage.genesisDynasty) :
               ~TrieHas(step.mintCnt, <<step.id, v>>)

\* C20: the nextDynasty a step elects is made of candidates left after the
\* kick-out of that step: the tally and the ranking are those of the
\* candidate trie after the kick-out, and no validator kicked in the step is
\* in the nextDynasty of the step.
C20_KickoutBeforeSelection ==
  Called =>
    \A k \in DOMAIN ret.steps :
      LET step == ret.steps[k]
      IN step.err = Nil =>
           /\ DOMAIN step.votes = TrieKeys(step.candidateAfter)
           /\ AddressesOf(step.candidates) = TrieKeys(step.candidateAfter)
           /\ TrieKeys(step.nextDynastyAfter) \subseteq TrieKeys(step.candidateAfter)
           /\ \A j \in DOMAIN step.kicked :
                ~TrieHas(step.nextDynastyAfter, step.kicked[j])

\* a validator kicked in a step is left out of the nextDynasty of the step
\* and sits in the dynasty the step rotated in
C20_Witness ==
  /\ Called
  /\ \E k \in DOMAIN ret.steps :
       LET step == ret.steps[k]
       IN /\ step.err = Nil
          /\ \E j \in DOMAIN step.kicked :
               /\ TrieHas(step.dynastyAfter, step.kicked[j])
               /\ TrieHas(step.candidateBefore, step.kicked[j])
               /\ ~TrieHas(step.nextDynastyAfter, step.kicked[j])


\* C21: a call on a block of dynasty 0 runs kickoutDynasty in none of its
\* election steps, whatever the mint counts and the number of dynasties
\* crossed, and the candidate, delegate, vote and mintCnt tries of the
\* returned context have the contents of the block's; a call on a block of a
\* later dynasty runs kickoutDynasty(i) in every election step i.
C21_NoKickoutFromGenesisBase ==
  Called =>
    /\ BaseDynastyID = 0 =>
         /\ \A k \in DOMAIN ret.steps :
              /\ ~ret.steps[k].kickoutRan
              /\ ret.steps[k].kicked = <<>>
              /\ ret.steps[k].candidateAfter = ret.before.candidateTrie
              /\ ret.steps[k].delegateAfter = ret.before.delegateTrie
              /\ ret.steps[k].voteAfter = ret.before.voteTrie
         /\ Returned =>
              /\ ret.context[1].CandidateTrie = ret.before.candidateTrie
              /\ ret.context[1].DelegateTrie = ret.before.delegateTrie
              /\ ret.context[1].VoteTrie = ret.before.voteTrie
              /\ ret.context[1].MintCntTrie = ret.before.mintCntTrie
    /\ BaseDynastyID > 0 =>
         \A k \in DOMAIN ret.steps :
           /\ ret.steps[k].kickoutRan
           /\ ret.steps[k].mintCnt = ret.before.mintCntTrie

\* a call from dynasty 0 across three boundaries, on a block with a mint
\* count and a dynasty member that is no candidate any more, ran its steps
\* without kick-out
C21_Witness ==
  /\ Returned
  /\ BaseDynastyID = 0
  /\ NewDynastyID = 3
  /\ Len(ret.steps) = 2
  /\ ret.before.mintCntTrie # {}
  /\ \E v \in TrieKeys(ret.before.dynastyTrie) : ~TrieHas(ret.before.candidateTrie, v)

\* a call from a later dynasty ran the kick-out in each of its two steps and
\* the first of them removed a candidate
C21_WitnessLater ==
  /\ Returned
  /\ BaseDynastyID > 0
  /\ Len(ret.steps) >= 2
  /\ ret.steps[1].kickoutRan
  /\ ret.steps[1].kicked # <<>>
  /\ ret.steps[2].kickoutRan


\* the delegators listed under c in a delegate trie
ListedUnder(delegateTrie, c) == {e[2] : e \in {x \in delegateTrie : x[1][1] = c}}

\* C22: kickout(c) changes only the candidate entry c, the delegate entries
\* with key prefix c, and the votes d -> c of the delegators d listed under c
\* in the delegate trie: the dynasty, nextDynasty and mintCnt tries, every
\* other candidate, every delegate entry of another delegatee and every vote
\* with another value (or of a delegator not listed under c) stay as they
\* were; and when c is no key of the candidate trie, kickout returns success
\* with all six tries unchanged.
C22_KickoutFrame ==
  kickCall.op = "kickout" =>
    LET b == kickCall.before
        a == kickCall.after
        c == kickCall.candidate
    IN /\ kickCall.err = Nil
       /\ a.dynastyTrie = b.dynastyTrie
       /\ a.nextDynastyTrie = b.nextDynastyTrie
       /\ a.mintCntTrie = b.mintCntTrie
       /\ IF TrieHas(b.candidateTrie, c)
          THEN /\ a.candidateTrie = {e \in b.candidateTrie : e[1] # c}
               /\ a.delegateTrie = {e \in b.delegateTrie : e[1][1] # c}
               /\ a.voteTrie =
                    {e \in b.voteTrie :
                       ~(e[2] = c /\ e[1] \in ListedUnder(b.delegateTrie, c))}
          ELSE a = b

\* kickout ran on a candidate with two listed delegators, one voting for it
\* and one voting for another delegatee, beside a vote for it by a delegator
\* that is not listed under it and a delegate entry of another delegatee
C22_Witness ==
  /\ kickCall.op = "kickout"
  /\ TrieHas(kickCall.before.candidateTrie, kickCall.candidate)
  /\ \E d1, d2, d3 \in KickAddrs :
       /\ d1 # d2
       /\ {d1, d2} \subseteq ListedUnder(kickCall.before.delegateTrie, kickCall.candidate)
       /\ d3 \notin ListedUnder(kickCall.before.delegateTrie, kickCall.candidate)
       /\ <<d1, kickCall.candidate>> \in kickCall.before.voteTrie
       /\ TrieHas(kickCall.before.voteTrie, d2)
       /\ TrieGet(kickCall.before.voteTrie, d2) # kickCall.candidate
       /\ <<d3, kickCall.candidate>> \in kickCall.before.voteTrie
       /\ <<d1, kickCall.candidate>> \notin kickCall.after.voteTrie
       /\ <<d3, kickCall.candidate>> \in kickCall.after.voteTrie
  /\ \E e \in kickCall.after.delegateTrie : e[1][1] # kickCall.candidate
  /\ kickCall.before.mintCntTrie # {}

\* kickout ran on an address that is no candidate while delegators are
\* listed under it and vote for it
C22_WitnessAbsent ==
  /\ kickCall.op = "kickout"
  /\ ~TrieHas(kickCall.before.candidateTrie, kickCall.candidate)
  /\ kickCall.before.candidateTrie # {}
  /\ \E d \in ListedUnder(kickCall.before.delegateTrie, kickCall.candidate) :
       <<d, kickCall.candidate>> \in kickCall.before.voteTrie
  /\ kickCall.after = kickCall.before

====
